---------------------------- MODULE Spec2Model ----------------------------
(***************************************************************************)
(* Tabdeel Pulse: the REST backend (src/server.js) and the React client    *)
(* state that talks to it (useAuth, PaymentInstructionsTab,                *)
(* AccountHeadsPage, MessagesPage, JobDetailsModal, ServiceJobsPage).      *)
(*                                                                         *)
(* The backend keeps its rows in PostgreSQL; a table is modelled as the    *)
(* sequence of its rows, a SERIAL column as a counter.  Every HTTP handler *)
(* is one action.  The handlers of MessagesPage and JobDetailsModal, which *)
(* change the page before they await, are split at the await: the part     *)
(* before it, and one action per outcome of the request.  The other client *)
(* handlers change nothing before their response and are one action with   *)
(* the request they send.                                                  *)
(*                                                                         *)
(* The subsystems do not share rows, so each has a next-state relation and *)
(* a specification of its own: SpecPay, SpecAuth, SpecAcct, SpecMsg (and   *)
(* SpecDel, MessagesPage without sends) and SpecJob for the pages with     *)
(* their routes; SpecUsers for the roles and users routes, SpecThreads for *)
(* the thread routes (and SpecParticipants, those that write               *)
(* thread_participants) as any client can call them; SpecStart for the     *)
(* startup of the server, SpecSort for the sortable tables.                *)
(***************************************************************************)
EXTENDS Integers, Sequences, FiniteSets, TLC

VARIABLES
    \* ---- backend tables (src/server.js) ----
    dbRoles,        \* roles: sequence of [id, name, permissions]
    dbUsers,        \* users: sequence of [id, name, email, password, roleId]
    nextUserId,     \* users.id SERIAL
    cacheUsers,     \* db.users, the in-memory cache of the backend
    server,         \* where startServer is: "initializing", "loading",
                    \* "listening" or "exited"
    instructions,   \* payment_instructions: sequence of rows
    nextInstId,     \* payment_instructions.id SERIAL
    accountHeads,   \* account_heads: sequence of [id, status]
    nextAccId,      \* account_heads.id SERIAL
    deposits,       \* deposits: sequence of [id, accountHeadId, amount]
    nextDepId,      \* deposits.id SERIAL
    res,            \* status code of the last HTTP response
    \* ---- AuthProvider (src/hooks/useAuth.ts) ----
    activeUser,     \* useState activeUser (NullUser: nobody logged in)
    roles,          \* useState roles
    rawAllUsers,    \* useState rawAllUsers
    initialData,    \* the fetch of the mount effect: "pending", "done", "failed"
    storedUser,     \* localStorage item 'tabdeel-pulse-user' (NoItem: absent)
    \* ---- AccountHeadsPage ----
    accounts,         \* useState accounts
    selectedAccount,  \* useState selectedAccount (NoAccount: null)
    \* ---- MessagesPage (src/unnamed/part_003) and its tables ----
    dbThreads,        \* threads with their messages: sequence of [id, messages]
    dbParticipants,   \* thread_participants: set of <<thread_id, user_id>>
    nextThreadId,     \* threads.id SERIAL
    nextMsgId,        \* messages.id SERIAL
    threads,          \* useState threads
    selectedThreadId, \* useState selectedThreadId (NoSelection: null)
    error,            \* useState error ("" for null)
    inflight,         \* requests of MessagesPage awaiting their response
    \* ---- JobDetailsModal ----
    comments,         \* useState comments
    jobInflight,      \* requests of JobDetailsModal awaiting their response
    now,              \* the clock Date.now() reads
    \* ---- the sortable tables ----
    statusFilter,     \* ServiceJobsPage: useState statusFilter
    priorityFilter,   \* ServiceJobsPage: useState priorityFilter
    jobSortConfig,    \* ServiceJobsPage: useState sortConfig (NoSort: null)
    sortConfig,       \* PaymentInstructionsTab: useState sortConfig
    \* ---- history variables (not program state) ----
    lastEvent,      \* what the last step of MessagesPage completed
    jobEvent,       \* what the last step of JobDetailsModal completed
    decidedBy,      \* instruction id -> the requester that moved it out of Pending
    approvedIds,    \* account heads on which handleApproveConfirm was performed
    createdDeposits \* ids of the deposits a POST answered 201 for

authVars == <<dbRoles, dbUsers, nextUserId, cacheUsers, activeUser, roles,
              rawAllUsers, initialData, storedUser>>
payVars  == <<instructions, nextInstId, decidedBy>>
acctVars == <<accountHeads, nextAccId, deposits, nextDepId, accounts,
              selectedAccount, approvedIds, createdDeposits>>

msgVars  == <<dbThreads, dbParticipants, nextThreadId, nextMsgId, threads, selectedThreadId,
              error, inflight, lastEvent>>
jobVars  == <<comments, jobInflight, jobEvent>>
sortVars == <<statusFilter, priorityFilter, jobSortConfig, sortConfig>>

vars == <<authVars, payVars, acctVars, msgVars, jobVars, sortVars, server, now, res>>

-----------------------------------------------------------------------------
(* Bounds of the model *)

MaxInstructions == 1
MaxHistory == 2
MaxAccountHeads == 2
MaxDeposits == 2
MaxUsers == 4
MaxThreads == 1
MaxMessages == 2
MaxInFlight == 2
MaxClock == 1
MaxListed == 2

\* A Date.now() reading when the page is opened, beyond every SERIAL id
DateNowBase == 1000

\* The ids a listed message can carry
MessageIds == (1..MaxMessages) \cup (DateNowBase..(DateNowBase + MaxClock))

-----------------------------------------------------------------------------
(* Helpers on sequences *)

Range(s) == {s[i] : i \in DOMAIN s}

\* Array.prototype.includes
Includes(s, x) == \E i \in DOMAIN s : s[i] = x

-----------------------------------------------------------------------------
(* Roles, users and permissions *)

\* initializeDatabase: defaultRoles
DefaultRoles == <<
    [id |-> "Administrator", name |-> "Administrator",
     permissions |-> <<"system:admin", "users:create", "users:read",
        "users:update", "users:delete", "users:reset_password",
        "finance:approve", "jobs:assign", "roles:manage", "projects:create",
        "projects:update", "projects:delete", "accounts:create",
        "accounts:update", "accounts:delete", "announcements:create",
        "announcements:delete">>],
    [id |-> "Manager", name |-> "Manager",
     permissions |-> <<"users:create", "users:read", "users:update",
        "finance:approve", "jobs:assign", "projects:create",
        "projects:update", "announcements:create">>],
    [id |-> "Technician", name |-> "Technician",
     permissions |-> <<"users:read", "jobs:assign">>] >>

\* initializeDatabase: defaultUsers (ids from the SERIAL column)
DefaultUsers == <<
    [id |-> 1, name |-> "Admin User", email |-> "admin@tabdeel.com",
     password |-> "password", roleId |-> "Administrator"],
    [id |-> 2, name |-> "Manager Mike", email |-> "manager@tabdeel.com",
     password |-> "password", roleId |-> "Manager"],
    [id |-> 3, name |-> "Technician Tom", email |-> "tech@tabdeel.com",
     password |-> "password", roleId |-> "Technician"] >>

\* SELECT id, name, email, role as "roleId", ... : a row without its password
PublicUser(row) ==
    [id |-> row.id, name |-> row.name, email |-> row.email, roleId |-> row.roleId]

\* GET /api/users
GetUsers == [i \in DOMAIN dbUsers |-> PublicUser(dbUsers[i])]

\* DELETE /api/roles/:id: the roles that cannot be deleted
ProtectedRoleIds == {"Administrator", "Manager", "Technician"}

\* users.role IS NULL
NullRole == ""

\* activeUser === null
NullUser == [id |-> 0, name |-> "", email |-> "", roleId |-> ""]

\* The permissions whose checks the pages modelled here perform
CheckedPermissions == {"system:admin", "finance:approve", "accounts:update",
                       "roles:manage", "users:read"}

\* enhanceUser: roles.find(r => r.id === user.roleId), 0 for undefined
FindRole(roleList, user) ==
    IF \E i \in DOMAIN roleList : roleList[i].id = user.roleId
    THEN CHOOSE i \in DOMAIN roleList :
            /\ roleList[i].id = user.roleId
            /\ \A j \in 1..(i - 1) : roleList[j].id # user.roleId
    ELSE 0

\* enhanceUser: permissions: role ? role.permissions : []
UserPermissions(roleList, user) ==
    IF FindRole(roleList, user) = 0 THEN <<>>
    ELSE roleList[FindRole(roleList, user)].permissions

\* enhanceUser: financialLimit
FinancialLimit(roleList, user) ==
    IF FindRole(roleList, user) = 0 THEN 0
    ELSE IF roleList[FindRole(roleList, user)].id = "Administrator" THEN 100000
    ELSE IF roleList[FindRole(roleList, user)].id = "Manager" THEN 50000
    ELSE 0

\* hasPermission without its system:admin branch
UserHasPermissionNoAdmin(roleList, user, permission) ==
    IF user = NullUser THEN FALSE
    ELSE Includes(UserPermissions(roleList, user), permission)

\* hasPermission, for the user `user` being the active one
UserHasPermission(roleList, user, permission) ==
    IF user = NullUser THEN FALSE
    ELSE IF Includes(UserPermissions(roleList, user), "system:admin") THEN TRUE
    ELSE Includes(UserPermissions(roleList, user), permission)

\* hasPermission of the AuthProvider
hasPermission(permission) == UserHasPermission(roles, activeUser, permission)

-----------------------------------------------------------------------------
(* AuthProvider (src/hooks/useAuth.ts) and the routes it calls.  None of    *)
(* its handlers changes state before its request is answered, so each is   *)
(* one action, taken when the response arrives.                            *)

\* Request bodies: "" stands for a missing field
EmailInputs == {"", "admin@tabdeel.com", "tech@tabdeel.com", "nobody@tabdeel.com"}
PasswordInputs == {"", "password", "wrong"}
CustomRoleIds == {"Auditor"}
RoleIdInputs == ProtectedRoleIds \cup CustomRoleIds
UpdatedRoleIds == {"Technician", "Auditor"}
UserIdInputs == {1, 3}
ApproverEmails == {"manager@tabdeel.com", "tech@tabdeel.com"}
PermissionInputs == {<<>>, <<"finance:approve">>, <<"users:read", "system:admin">>}

\* LoginStatus without the comparison of the passwords
LoginStatusAnyPassword(email, password) ==
    IF email = "" \/ password = "" THEN 400
    ELSE IF \E i \in DOMAIN dbUsers : dbUsers[i].email = email
    THEN 200
    ELSE 401

\* POST /api/login: the status code
LoginStatus(email, password) ==
    IF email = "" \/ password = "" THEN 400
    ELSE IF \E i \in DOMAIN dbUsers :
                dbUsers[i].email = email /\ dbUsers[i].password = password
    THEN 200
    ELSE 401

\* const { password, ...userWithoutPassword } = user
WithoutPassword(row) == [key \in DOMAIN row \ {"password"} |-> row[key]]

\* POST /api/login: the user of the 200 response (email is UNIQUE)
LoginUser(email) ==
    WithoutPassword(dbUsers[CHOOSE i \in DOMAIN dbUsers : dbUsers[i].email = email])

\* localStorage.getItem returns null
NoItem == <<>>

\* JSON.stringify of a user: the values of its keys, in the order of the keys
Stringify(user) == <<user.id, user.name, user.email, user.roleId>>

\* JSON.parse of a stored user
Parse(item) ==
    [id |-> item[1], name |-> item[2], email |-> item[3], roleId |-> item[4]]

\* Persist without the removeItem branch
PersistNoRemove ==
    storedUser' = IF activeUser' # NullUser THEN Stringify(activeUser') ELSE storedUser

\* The effect on [activeUser]: setItem when a user is active, else removeItem
Persist ==
    storedUser' = IF activeUser' # NullUser THEN Stringify(activeUser') ELSE NoItem

\* The initializer of useState activeUser: savedUser ? JSON.parse(savedUser) : null
SavedUser == IF storedUser # NoItem THEN Parse(storedUser) ELSE NullUser

\* window.location.reload(): the AuthProvider is constructed again, its state
\* takes its initial values and the initial fetch runs again
Reload ==
    /\ activeUser' = SavedUser
    /\ roles' = <<>>
    /\ rawAllUsers' = <<>>
    /\ initialData' = "pending"
    /\ UNCHANGED <<dbRoles, dbUsers, cacheUsers>>

\* The onLogout of MainLayout, which App renders only when a user is logged in
OnLogout ==
    /\ activeUser # NullUser
    /\ Reload

\* useAuth.login
Login(email, password) ==
    /\ activeUser' = IF LoginStatus(email, password) = 200
                     THEN LoginUser(email) ELSE activeUser
    /\ UNCHANGED <<dbRoles, dbUsers, cacheUsers, roles, rawAllUsers, initialData>>

\* useAuth.logout
Logout ==
    /\ activeUser # NullUser
    /\ activeUser' = NullUser
    /\ UNCHANGED <<dbRoles, dbUsers, cacheUsers, roles, rawAllUsers, initialData>>

\* fetchInitialData: both GET /api/users and GET /api/roles answered
FetchInitialDataOk ==
    /\ initialData = "pending"
    /\ rawAllUsers' = GetUsers
    /\ roles' = dbRoles
    /\ initialData' = "done"
    /\ UNCHANGED <<dbRoles, dbUsers, cacheUsers, activeUser>>

\* fetchInitialData: a request failed; the error is logged and nothing is set
FetchInitialDataFail ==
    /\ initialData = "pending"
    /\ initialData' = "failed"
    /\ UNCHANGED <<dbRoles, dbUsers, cacheUsers, activeUser, roles, rawAllUsers>>

\* useAuth.switchUser
SwitchUser(userId) ==
    /\ \E i \in DOMAIN rawAllUsers : rawAllUsers[i].id = userId
    /\ activeUser' = rawAllUsers[CHOOSE i \in DOMAIN rawAllUsers :
                                    rawAllUsers[i].id = userId]
    /\ UNCHANGED <<dbRoles, dbUsers, cacheUsers, roles, rawAllUsers, initialData>>

\* useAuth.createRole and POST /api/roles
CreateRole(id, permissions) ==
    LET created == [id |-> id, name |-> id, permissions |-> permissions] IN
    IF \E i \in DOMAIN dbRoles : dbRoles[i].id = id
    THEN UNCHANGED <<dbRoles, dbUsers, cacheUsers, activeUser, roles, rawAllUsers, initialData>>
    ELSE /\ dbRoles' = Append(dbRoles, created)
         /\ roles' = Append(roles, created)
         /\ UNCHANGED <<dbUsers, cacheUsers, activeUser, rawAllUsers, initialData>>

\* prevRoles.map(role => role.id === roleId ? updatedRoleFromApi : role)
ReplaceRole(roleList, roleId, updated) ==
    [i \in DOMAIN roleList |->
        IF roleList[i].id = roleId THEN updated ELSE roleList[i]]

\* useAuth.updateRole and PUT /api/roles/:id
UpdateRole(roleId, permissions) ==
    IF ~ \E i \in DOMAIN dbRoles : dbRoles[i].id = roleId
    THEN UNCHANGED <<dbRoles, dbUsers, cacheUsers, activeUser, roles, rawAllUsers, initialData>>
    ELSE LET row == dbRoles[CHOOSE i \in DOMAIN dbRoles : dbRoles[i].id = roleId]
             updated == [row EXCEPT !.permissions = permissions]
         IN /\ dbRoles' = ReplaceRole(dbRoles, roleId, updated)
            /\ roles' = ReplaceRole(roles, roleId, updated)
            /\ UNCHANGED <<dbUsers, cacheUsers, activeUser, rawAllUsers, initialData>>

\* UPDATE users SET role = 'Technician' WHERE role = $1
ReassignUsers(rows, roleId) ==
    [i \in DOMAIN rows |->
        IF rows[i].roleId = roleId
        THEN [rows[i] EXCEPT !.roleId = "Technician"] ELSE rows[i]]

\* DeleteRoleStatus without the test of defaultRoles
DeleteRoleStatusNoDefaults(roleId) ==
    IF ~ \E i \in DOMAIN dbRoles : dbRoles[i].id = roleId THEN 404
    ELSE 204

\* DELETE /api/roles/:id: the status code
DeleteRoleStatus(roleId) ==
    IF roleId \in ProtectedRoleIds THEN 403
    ELSE IF ~ \E i \in DOMAIN dbRoles : dbRoles[i].id = roleId THEN 404
    ELSE 204

\* useAuth.deleteRole and DELETE /api/roles/:id; usersOk: the GET /api/users
\* that follows is answered
DeleteRole(roleId, usersOk) ==
    IF DeleteRoleStatus(roleId) # 204
    THEN UNCHANGED <<dbRoles, dbUsers, cacheUsers, activeUser, roles, rawAllUsers, initialData>>
    ELSE /\ dbUsers' = ReassignUsers(dbUsers, roleId)
         /\ dbRoles' = SelectSeq(dbRoles, LAMBDA r : r.id # roleId)
         /\ roles' = SelectSeq(roles, LAMBDA r : r.id # roleId)
         /\ rawAllUsers' = IF usersOk
                           THEN [i \in DOMAIN dbUsers |->
                                    PublicUser(ReassignUsers(dbUsers, roleId)[i])]
                           ELSE rawAllUsers
         /\ UNCHANGED <<cacheUsers, activeUser, initialData>>

\* UPDATE users SET role = $1 WHERE id = $2
UpdateUserRows(rows, userId, roleId) ==
    [i \in DOMAIN rows |->
        IF rows[i].id = userId THEN [rows[i] EXCEPT !.roleId = roleId]
        ELSE rows[i]]

\* index = db.users.findIndex(...); if (index !== -1) db.users[index] = updatedUser
SyncCache(cache, updatedUser) ==
    IF \E i \in DOMAIN cache : cache[i].id = updatedUser.id
    THEN LET index == CHOOSE i \in DOMAIN cache :
                         /\ cache[i].id = updatedUser.id
                         /\ \A j \in 1..(i - 1) : cache[j].id # updatedUser.id
         IN [cache EXCEPT ![index] = updatedUser]
    ELSE cache

\* PUT /api/users/:id with body {roleId}: the status code
PutUserStatus(userId, roleId) ==
    IF roleId # NullRole /\ ~ \E i \in DOMAIN dbRoles : dbRoles[i].id = roleId
    THEN 500   \* role TEXT REFERENCES roles(id): the UPDATE throws
    ELSE IF ~ \E i \in DOMAIN dbUsers : dbUsers[i].id = userId THEN 404
    ELSE 200

\* useAuth.updateUser and PUT /api/users/:id, for a user whose role was edited
UpdateUser(userId, roleId) ==
    /\ \E i \in DOMAIN rawAllUsers : rawAllUsers[i].id = userId
    /\ IF PutUserStatus(userId, roleId) # 200
       THEN UNCHANGED <<dbRoles, dbUsers, cacheUsers, activeUser, roles,
                        rawAllUsers, initialData>>
       ELSE LET updated == UpdateUserRows(dbUsers, userId, roleId)
                fromApi == PublicUser(updated[CHOOSE i \in DOMAIN updated :
                                                 updated[i].id = userId])
            IN /\ dbUsers' = updated
               /\ cacheUsers' = SyncCache(cacheUsers, fromApi)
               /\ rawAllUsers' = [i \in DOMAIN rawAllUsers |->
                                    IF rawAllUsers[i].id = userId
                                    THEN fromApi ELSE rawAllUsers[i]]
               /\ activeUser' = IF activeUser.id = userId THEN fromApi ELSE activeUser
               /\ UNCHANGED <<dbRoles, roles, initialData>>

\* useAuth.deleteUser and DELETE /api/users/:id; the updater of setActiveUser
\* reads the rawAllUsers of the render in which deleteUser was created
DeleteUser(userId) ==
    IF ~ \E i \in DOMAIN dbUsers : dbUsers[i].id = userId
    THEN UNCHANGED <<dbRoles, dbUsers, cacheUsers, activeUser, roles, rawAllUsers, initialData>>
    ELSE /\ dbUsers' = SelectSeq(dbUsers, LAMBDA u : u.id # userId)
         /\ cacheUsers' = SelectSeq(cacheUsers, LAMBDA u : u.id # userId)
         /\ rawAllUsers' = SelectSeq(rawAllUsers, LAMBDA u : u.id # userId)
         /\ activeUser' =
               IF activeUser # NullUser /\ activeUser.id = userId
               THEN IF \E i \in DOMAIN rawAllUsers : rawAllUsers[i].id = 1
                    THEN rawAllUsers[CHOOSE i \in DOMAIN rawAllUsers :
                                        rawAllUsers[i].id = 1]
                    ELSE NullUser
               ELSE activeUser
         /\ UNCHANGED <<dbRoles, roles, initialData>>

otherThanAuth == <<nextUserId, payVars, acctVars, msgVars, jobVars, sortVars, server, now, res>>

AuthNext ==
    \/ \E email \in EmailInputs, password \in PasswordInputs :
          Login(email, password) /\ Persist /\ UNCHANGED otherThanAuth
    \/ Logout /\ Persist /\ UNCHANGED otherThanAuth
    \/ Reload /\ Persist /\ UNCHANGED otherThanAuth
    \/ OnLogout /\ Persist /\ UNCHANGED otherThanAuth
    \/ FetchInitialDataOk /\ Persist /\ UNCHANGED otherThanAuth
    \/ FetchInitialDataFail /\ Persist /\ UNCHANGED otherThanAuth
    \/ \E userId \in UserIdInputs : SwitchUser(userId) /\ Persist /\ UNCHANGED otherThanAuth
    \/ \E id \in RoleIdInputs, permissions \in PermissionInputs :
          CreateRole(id, permissions) /\ Persist /\ UNCHANGED otherThanAuth
    \/ \E id \in UpdatedRoleIds, permissions \in PermissionInputs :
          UpdateRole(id, permissions) /\ Persist /\ UNCHANGED otherThanAuth
    \/ \E id \in RoleIdInputs, usersOk \in BOOLEAN :
          DeleteRole(id, usersOk) /\ Persist /\ UNCHANGED otherThanAuth
    \/ \E userId \in UserIdInputs, roleId \in RoleIdInputs :
          UpdateUser(userId, roleId) /\ Persist /\ UNCHANGED otherThanAuth
    \/ \E userId \in UserIdInputs : DeleteUser(userId) /\ Persist /\ UNCHANGED otherThanAuth

-----------------------------------------------------------------------------
(* The users and roles routes of src/server.js as any client can call them. *)
(* res is the status code of the response.                                  *)

\* req.body.email of POST /api/users ("" for undefined)
NewEmailInputs == {"", "new@tabdeel.com", "admin@tabdeel.com"}

\* req.body.roleId of POST and PUT /api/users (NullRole for undefined or null)
UserRoleInputs == {"Technician", "Auditor", NullRole}

\* req.params.id of PUT and DELETE /api/users/:id and of change-password
EditedUserIds == {3, 4, 5}

\* req.body.password of POST /api/login
LoginPasswordInputs == PasswordInputs \cup {"secret"}

\* req.body.newPassword of change-password
NewPasswordInputs == {"", "password", "secret"}

\* POST /api/users: the status code
PostUserStatus(email, roleId) ==
    IF \/ email = ""          \* email ... NOT NULL
       \/ \E i \in DOMAIN dbUsers : dbUsers[i].email = email   \* UNIQUE
       \/ /\ roleId # NullRole   \* role TEXT REFERENCES roles(id)
          /\ ~ \E i \in DOMAIN dbRoles : dbRoles[i].id = roleId
    THEN 500
    ELSE 201

\* POST /api/users
PostUser(email, roleId) ==
    /\ nextUserId <= MaxUsers
    /\ IF PostUserStatus(email, roleId) = 201
       THEN LET newUser == [id |-> nextUserId, name |-> "New User",
                            email |-> email, password |-> "password",
                            roleId |-> roleId]
            IN /\ dbUsers' = Append(dbUsers, newUser)
               /\ nextUserId' = nextUserId + 1
               /\ cacheUsers' = Append(cacheUsers, PublicUser(newUser))
       ELSE UNCHANGED <<dbUsers, nextUserId, cacheUsers>>
    /\ res' = PostUserStatus(email, roleId)
    /\ UNCHANGED dbRoles

\* PUT /api/users/:id with body {roleId}
PutUser(userId, roleId) ==
    /\ IF PutUserStatus(userId, roleId) = 200
       THEN LET updated == UpdateUserRows(dbUsers, userId, roleId)
                updatedUser == PublicUser(updated[CHOOSE i \in DOMAIN updated :
                                                     updated[i].id = userId])
            IN /\ dbUsers' = updated
               /\ cacheUsers' = SyncCache(cacheUsers, updatedUser)
       ELSE UNCHANGED <<dbUsers, cacheUsers>>
    /\ res' = PutUserStatus(userId, roleId)
    /\ UNCHANGED <<dbRoles, nextUserId>>

\* DELETE /api/users/:id: the status code
DeleteUserStatus(userId) ==
    IF \E i \in DOMAIN dbUsers : dbUsers[i].id = userId THEN 204 ELSE 404

\* DELETE /api/users/:id (no thread exists where this route is called, so
\* that ON DELETE CASCADE has no thread_participants row to remove)
DeleteUserRow(userId) ==
    /\ IF DeleteUserStatus(userId) = 204
       THEN /\ dbUsers' = SelectSeq(dbUsers, LAMBDA u : u.id # userId)
            /\ cacheUsers' = SelectSeq(cacheUsers, LAMBDA u : u.id # userId)
       ELSE UNCHANGED <<dbUsers, cacheUsers>>
    /\ res' = DeleteUserStatus(userId)
    /\ UNCHANGED <<dbRoles, nextUserId>>

\* POST /api/users/:id/change-password: the status code
ChangePasswordStatus(userId, currentPassword) ==
    IF ~ \E i \in DOMAIN dbUsers : dbUsers[i].id = userId THEN 404
    ELSE IF \E i \in DOMAIN dbUsers :
               dbUsers[i].id = userId /\ dbUsers[i].password # currentPassword
    THEN 400
    ELSE 200

\* POST /api/users/:id/change-password
ChangePassword(userId, currentPassword, newPassword) ==
    /\ dbUsers' = IF ChangePasswordStatus(userId, currentPassword) = 200
                  THEN [i \in DOMAIN dbUsers |->
                           IF dbUsers[i].id = userId
                           THEN [dbUsers[i] EXCEPT !.password = newPassword]
                           ELSE dbUsers[i]]
                  ELSE dbUsers
    /\ res' = ChangePasswordStatus(userId, currentPassword)
    /\ UNCHANGED <<dbRoles, nextUserId, cacheUsers>>

\* POST /api/roles: the status code
PostRoleStatus(id) ==
    IF id = "" THEN 400
    ELSE IF \E i \in DOMAIN dbRoles : dbRoles[i].id = id THEN 409
    ELSE 201

\* POST /api/roles with body {id, name: id} (permissions || [])
PostRole(id) ==
    /\ dbRoles' = IF PostRoleStatus(id) = 201
                  THEN Append(dbRoles, [id |-> id, name |-> id, permissions |-> <<>>])
                  ELSE dbRoles
    /\ res' = PostRoleStatus(id)
    /\ UNCHANGED <<dbUsers, nextUserId, cacheUsers>>

\* PUT /api/roles/:id: the status code (permissions is an array)
PutRoleStatus(roleId) ==
    IF \E i \in DOMAIN dbRoles : dbRoles[i].id = roleId THEN 200 ELSE 404

\* PUT /api/roles/:id with body {permissions}
PutRole(roleId, permissions) ==
    /\ dbRoles' = [i \in DOMAIN dbRoles |->
                      IF dbRoles[i].id = roleId
                      THEN [dbRoles[i] EXCEPT !.permissions = permissions]
                      ELSE dbRoles[i]]
    /\ res' = PutRoleStatus(roleId)
    /\ UNCHANGED <<dbUsers, nextUserId, cacheUsers>>

\* DELETE /api/roles/:id
DeleteRoleRow(roleId) ==
    /\ IF DeleteRoleStatus(roleId) = 204
       THEN /\ dbUsers' = ReassignUsers(dbUsers, roleId)
            /\ dbRoles' = SelectSeq(dbRoles, LAMBDA r : r.id # roleId)
       ELSE UNCHANGED <<dbUsers, dbRoles>>
    /\ res' = DeleteRoleStatus(roleId)
    /\ UNCHANGED <<nextUserId, cacheUsers>>

\* POST /api/login
PostLogin(email, password) ==
    /\ res' = LoginStatus(email, password)
    /\ UNCHANGED <<dbRoles, dbUsers, nextUserId, cacheUsers>>

\* Everything but the users and roles tables and the cache
otherThanUsers == <<activeUser, roles, rawAllUsers, initialData, storedUser,
                    payVars, acctVars, msgVars, jobVars, sortVars, server, now>>

UsersNext ==
    \/ \E email \in NewEmailInputs, roleId \in UserRoleInputs :
          PostUser(email, roleId) /\ UNCHANGED otherThanUsers
    \/ \E userId \in EditedUserIds, roleId \in UserRoleInputs :
          PutUser(userId, roleId) /\ UNCHANGED otherThanUsers
    \/ \E userId \in EditedUserIds :
          DeleteUserRow(userId) /\ UNCHANGED otherThanUsers
    \/ \E userId \in EditedUserIds, currentPassword \in PasswordInputs,
          newPassword \in NewPasswordInputs :
          ChangePassword(userId, currentPassword, newPassword)
             /\ UNCHANGED otherThanUsers
    \/ \E id \in RoleIdInputs \cup {""} : PostRole(id) /\ UNCHANGED otherThanUsers
    \/ \E id \in UpdatedRoleIds, permissions \in PermissionInputs :
          PutRole(id, permissions) /\ UNCHANGED otherThanUsers
    \/ \E id \in RoleIdInputs : DeleteRoleRow(id) /\ UNCHANGED otherThanUsers
    \/ \E email \in EmailInputs, password \in LoginPasswordInputs :
          PostLogin(email, password) /\ UNCHANGED otherThanUsers

-----------------------------------------------------------------------------
(* Payment instructions: src/server.js and PaymentInstructionsTab *)

\* Request bodies: a status outside the enum stands for any other string,
\* "" for a missing field; amount 0 for a missing amount
StatusInputs == {"", "Pending", "Approved", "Rejected", "Paid"}
AmountInputs == {0, 30000, 75000}

\* The clients sending requests: the seeded users, each logged in at a browser
Requesters == {PublicUser(DefaultUsers[i]) : i \in DOMAIN DefaultUsers}

\* PaymentInstructionsTab.Actions: canApprove
canApprove(roleList, user, inst) ==
    /\ UserHasPermission(roleList, user, "finance:approve")
    /\ inst.amount <= FinancialLimit(roleList, user)

\* PaymentInstructionsTab.Actions: the approve and reject buttons are rendered
ActionsOffered(roleList, user, inst) ==
    inst.status = "Pending" /\ canApprove(roleList, user, inst)

\* POST /api/finance/payment-instructions
PostInstruction(who, amount) ==
    /\ Len(instructions) < MaxInstructions
    /\ IF amount = 0
       THEN /\ res' = 400
            /\ UNCHANGED <<instructions, nextInstId, decidedBy>>
       ELSE /\ instructions' = Append(instructions,
                 [id |-> nextInstId, amount |-> amount, status |-> "Pending",
                  submittedBy |-> who.name,
                  history |-> << [status |-> "Pending", user |-> who.name] >>])
            /\ nextInstId' = nextInstId + 1
            /\ decidedBy' = decidedBy
            /\ res' = 201
    /\ UNCHANGED <<authVars, acctVars, msgVars, jobVars, sortVars, server, now>>

\* UPDATE payment_instructions SET status = $1, history = $2 WHERE id = $3
UpdateInstruction(rows, id, status, history) ==
    [i \in DOMAIN rows |->
        IF rows[i].id = id
        THEN [rows[i] EXCEPT !.status = status, !.history = history]
        ELSE rows[i]]

\* PUT /api/finance/payment-instructions/:id, sent by the client of `who`
\* with the history that client holds, extended by its own entry
PutInstruction(who, id, status, known) ==
    LET history == Append(known, [status |-> status, user |-> who.name])
        hit == {i \in DOMAIN instructions : instructions[i].id = id}
    IN
    /\ Len(history) <= MaxHistory
    /\ IF status = ""
       THEN /\ res' = 400
            /\ UNCHANGED <<instructions, decidedBy>>
       ELSE IF hit = {}
       THEN /\ res' = 404
            /\ UNCHANGED <<instructions, decidedBy>>
       ELSE /\ instructions' = UpdateInstruction(instructions, id, status, history)
            /\ decidedBy' =
                 IF \E i \in hit : instructions[i].status = "Pending"
                                   /\ status \in {"Approved", "Rejected"}
                 THEN [decidedBy EXCEPT ![id] = who]
                 ELSE decidedBy
            /\ res' = 200
    /\ UNCHANGED <<nextInstId, authVars, acctVars, msgVars, jobVars, sortVars, server, now>>

\* The histories a client may hold for instruction `id`: a prefix of the
\* stored one (a list fetched earlier)
KnownHistories(id) ==
    UNION {{SubSeq(instructions[i].history, 1, k) :
                k \in 0..Len(instructions[i].history)} :
           i \in {j \in DOMAIN instructions : instructions[j].id = id}}
    \cup {<<>>}

PayNext ==
    \/ \E who \in Requesters, amount \in AmountInputs : PostInstruction(who, amount)
    \/ \E who \in Requesters, id \in 1..MaxInstructions, status \in StatusInputs :
          \E known \in KnownHistories(id) : PutInstruction(who, id, status, known)

-----------------------------------------------------------------------------
(* Account heads and deposits: /api/account-heads, /api/finance/deposits    *)
(* (src/server.js) and AccountHeadsPage. A row keeps its id and status; the *)
(* name and bank columns are data the routes copy and never read.           *)

\* useState<AccountHead | null>(null)
NoAccount == [id |-> 0, status |-> ""]

\* req.body.status of POST and PUT /api/account-heads ("" for undefined)
AccountStatusInputs == {"", "Pending Approval", "Active", "Inactive"}

\* deposits.account_head_id after ON DELETE SET NULL
NullId == 0

\* POST /api/account-heads
PostAccountHead(status) ==
    /\ nextAccId <= MaxAccountHeads
    /\ IF status = ""
       THEN \* status VARCHAR(50) NOT NULL: the INSERT throws
            /\ res' = 500
            /\ UNCHANGED <<accountHeads, nextAccId>>
       ELSE /\ accountHeads' = Append(accountHeads,
                                      [id |-> nextAccId, status |-> status])
            /\ nextAccId' = nextAccId + 1
            /\ res' = 201
    /\ UNCHANGED <<deposits, nextDepId, accounts, selectedAccount,
                   approvedIds, createdDeposits>>

\* UPDATE account_heads SET ..., status = $4 WHERE id = $5
UpdateAccountHead(rows, id, status) ==
    [i \in DOMAIN rows |->
        IF rows[i].id = id THEN [rows[i] EXCEPT !.status = status] ELSE rows[i]]

\* PUT /api/account-heads/:id
PutAccountHead(id, status) ==
    /\ IF status = ""
       THEN /\ res' = (IF \E i \in DOMAIN accountHeads : accountHeads[i].id = id
                       THEN 500 ELSE 200)
            /\ UNCHANGED accountHeads
       ELSE /\ accountHeads' = UpdateAccountHead(accountHeads, id, status)
            /\ res' = 200
    /\ UNCHANGED <<nextAccId, deposits, nextDepId, accounts, selectedAccount,
                   approvedIds, createdDeposits>>

\* DELETE /api/account-heads/:id, with account_head_id ... ON DELETE SET NULL
DeleteAccountHead(id) ==
    /\ accountHeads' = SelectSeq(accountHeads, LAMBDA row : row.id # id)
    /\ deposits' = [i \in DOMAIN deposits |->
                      IF deposits[i].accountHeadId = id
                      THEN [deposits[i] EXCEPT !.accountHeadId = NullId]
                      ELSE deposits[i]]
    /\ res' = 204
    /\ UNCHANGED <<nextAccId, nextDepId, accounts, selectedAccount,
                   approvedIds, createdDeposits>>

\* POST /api/finance/deposits
PostDeposit(accountHeadId) ==
    /\ nextDepId <= MaxDeposits
    /\ IF /\ accountHeadId # NullId
          /\ ~ \E i \in DOMAIN accountHeads : accountHeads[i].id = accountHeadId
       THEN \* REFERENCES account_heads(id): the INSERT throws
            /\ res' = 500
            /\ UNCHANGED <<deposits, nextDepId, createdDeposits>>
       ELSE /\ deposits' = Append(deposits, [id |-> nextDepId,
                                             accountHeadId |-> accountHeadId])
            /\ nextDepId' = nextDepId + 1
            /\ createdDeposits' = createdDeposits \cup {nextDepId}
            /\ res' = 201
    /\ UNCHANGED <<accountHeads, nextAccId, accounts, selectedAccount, approvedIds>>

\* GET /api/finance/deposits: FROM deposits d JOIN account_heads ah
\* ON d.account_head_id = ah.id, each row with id: String(row.id)
GetDeposits ==
    LET joined == SelectSeq(deposits, LAMBDA d :
                     \E i \in DOMAIN accountHeads :
                         accountHeads[i].id = d.accountHeadId)
    IN [i \in DOMAIN joined |->
           [id |-> ToString(joined[i].id), accountHead |-> joined[i].accountHeadId]]

\* fetchAccounts (GET /api/account-heads answered)
FetchAccounts ==
    /\ accounts' = accountHeads
    /\ res' = 200
    /\ UNCHANGED <<accountHeads, nextAccId, deposits, nextDepId, selectedAccount,
                   approvedIds, createdDeposits>>

\* The Approve button of a listed row and its onClick
ClickApprove(acc) ==
    /\ acc.status = "Pending Approval"
    /\ hasPermission("finance:approve")
    /\ selectedAccount' = acc
    /\ UNCHANGED <<accountHeads, nextAccId, deposits, nextDepId, accounts,
                   approvedIds, createdDeposits, res>>

\* handleApproveConfirm; ok: the PUT is answered (then fetchAccounts runs)
HandleApproveConfirm(ok) ==
    /\ selectedAccount # NoAccount
    /\ IF ok
       THEN /\ accountHeads' = UpdateAccountHead(accountHeads,
                                                 selectedAccount.id, "Active")
            /\ accounts' = UpdateAccountHead(accountHeads,
                                             selectedAccount.id, "Active")
            /\ approvedIds' = approvedIds \cup {selectedAccount.id}
            /\ res' = 200
       ELSE UNCHANGED <<accountHeads, accounts, approvedIds, res>>
    /\ selectedAccount' = NoAccount
    /\ UNCHANGED <<nextAccId, deposits, nextDepId, createdDeposits>>

otherThanAcct == <<authVars, payVars, msgVars, jobVars, sortVars, server, now>>

AcctNext ==
    \/ \E status \in AccountStatusInputs :
          PostAccountHead(status) /\ UNCHANGED otherThanAcct
    \/ \E id \in 1..MaxAccountHeads, status \in AccountStatusInputs :
          PutAccountHead(id, status) /\ UNCHANGED otherThanAcct
    \/ \E id \in 1..MaxAccountHeads :
          DeleteAccountHead(id) /\ UNCHANGED otherThanAcct
    \/ \E id \in 0..MaxAccountHeads :
          PostDeposit(id) /\ UNCHANGED otherThanAcct
    \/ FetchAccounts /\ UNCHANGED otherThanAcct
    \/ \E i \in DOMAIN accounts :
          ClickApprove(accounts[i]) /\ UNCHANGED otherThanAcct
    \/ \E ok \in BOOLEAN :
          HandleApproveConfirm(ok) /\ UNCHANGED otherThanAcct
    \/ \E email \in ApproverEmails :
          Login(email, "password") /\ Persist /\ UNCHANGED otherThanAuth
    \/ FetchInitialDataOk /\ Persist /\ UNCHANGED otherThanAuth

-----------------------------------------------------------------------------
(* Messaging: /api/threads (src/server.js) and MessagesPage                 *)
(* (src/unnamed/part_003). A thread keeps its id and messages, a message    *)
(* its id. A handler is one step up to its await; the response is a second  *)
(* step, taken in any order with the other requests in flight.              *)

\* useState<string | null>(null)
NoSelection == 0

\* The texts setError is called with
SendError == "Failed to send message. Please try again."
FetchError == "Failed to fetch conversations."
DeleteMessageError == "Failed to delete message. Reverting changes."
DeleteThreadError == "Failed to delete conversation. Reverting changes."

\* No step of interest completed
NoEvent == [kind |-> "none", before |-> <<>>, threadId |-> 0, msgId |-> 0]

\* No comment (a fetch that follows no post)
NoComment == [id |-> 0, user |-> "", text |-> ""]

\* No step of interest of JobDetailsModal completed
NoJobEvent == [kind |-> "none", before |-> <<>>, comment |-> NoComment]

\* Date.now()
DateNow == DateNowBase + now

\* The clock advances
Tick ==
    /\ now < MaxClock
    /\ now' = now + 1
    /\ lastEvent' = NoEvent
    /\ jobEvent' = NoJobEvent
    /\ UNCHANGED <<authVars, payVars, acctVars, sortVars, server, res, dbThreads,
                   dbParticipants, nextThreadId, nextMsgId, threads,
                   selectedThreadId, error, inflight, comments, jobInflight>>

\* GET /api/threads?userId= for a participant of every thread
GetThreads == dbThreads

\* A request in flight; original: the handler's const originalThreads;
\* selected: selectedThreadId as the handler's closure holds it
Request(kind, threadId, msgId, original) ==
    [kind |-> kind, threadId |-> threadId, msgId |-> msgId,
     original |-> original, before |-> threads, selected |-> selectedThreadId]

\* fetchThreads up to its await
FetchRequest(threadId, revertOf) == Request("fetch", threadId, revertOf, <<>>)

RemoveAt(q, i) == SubSeq(q, 1, i - 1) \o SubSeq(q, i + 1, Len(q))

\* prevThreads.map(thread => thread.id === threadId
\*     ? {...thread, messages: [...thread.messages, optimisticMessage]} : thread)
AppendMessage(list, threadId, message) ==
    [i \in DOMAIN list |->
        IF list[i].id = threadId
        THEN [list[i] EXCEPT !.messages = Append(@, message)]
        ELSE list[i]]

\* prevThreads.map(... thread.messages.filter(msg => msg.id !== messageId) ...)
FilterMessage(list, threadId, messageId) ==
    [i \in DOMAIN list |->
        IF list[i].id = threadId
        THEN [list[i] EXCEPT
                 !.messages = SelectSeq(@, LAMBDA msg : msg.id # messageId)]
        ELSE list[i]]

\* threads.find(t => String(t.id) === selectedThreadId) is defined
HasActiveThread ==
    \E i \in DOMAIN threads : threads[i].id = selectedThreadId

\* The effect on [fetchThreads] after a login changed currentUser
MsgLogin(email) ==
    /\ Len(inflight) < MaxInFlight
    /\ LoginStatus(email, "password") = 200
    /\ Login(email, "password")
    /\ Persist
    /\ UNCHANGED nextUserId
    /\ error' = ""
    /\ inflight' = Append(inflight, FetchRequest(0, 0))
    /\ lastEvent' = NoEvent
    /\ UNCHANGED <<dbThreads, dbParticipants, nextThreadId, nextMsgId, threads, selectedThreadId>>

\* A click on a listed thread; the effect on [fetchThreads] runs since
\* selectedThreadId changed
SelectThread(threadId) ==
    /\ activeUser # NullUser
    /\ \E i \in DOMAIN threads : threads[i].id = threadId
    /\ Len(inflight) < MaxInFlight
    /\ threadId # selectedThreadId
    /\ selectedThreadId' = threadId
    /\ error' = ""
    /\ inflight' = Append(inflight,
                          [FetchRequest(0, 0) EXCEPT !.selected = threadId])
    /\ lastEvent' = NoEvent
    /\ UNCHANGED <<dbThreads, dbParticipants, nextThreadId, nextMsgId, threads>>

\* fetchThreads after its await, response ok; when it changes
\* selectedThreadId, the effect on [fetchThreads] runs fetchThreads again up
\* to its await
FetchThreadsOk(i) ==
    /\ inflight[i].kind = "fetch"
    /\ threads' = GetThreads
    /\ selectedThreadId' =
          IF \/ inflight[i].selected = NoSelection
             \/ ~ \E j \in DOMAIN GetThreads :
                     GetThreads[j].id = inflight[i].selected
          THEN (IF GetThreads = <<>> THEN NoSelection ELSE GetThreads[1].id)
          ELSE selectedThreadId
    /\ inflight' = IF selectedThreadId' # selectedThreadId
                   THEN Append(RemoveAt(inflight, i),
                               [FetchRequest(0, 0) EXCEPT
                                   !.selected = selectedThreadId'])
                   ELSE RemoveAt(inflight, i)
    /\ error' = IF selectedThreadId' # selectedThreadId THEN "" ELSE error
    /\ lastEvent' = IF inflight[i].msgId = 0 THEN NoEvent
                    ELSE [kind |-> "sendFailureHandled", before |-> <<>>,
                          threadId |-> inflight[i].threadId,
                          msgId |-> inflight[i].msgId]
    /\ UNCHANGED <<dbThreads, dbParticipants, nextThreadId, nextMsgId>>

\* fetchThreads after its await, no response or one that is not ok
FetchThreadsFail(i) ==
    /\ inflight[i].kind = "fetch"
    /\ error' = FetchError
    /\ inflight' = RemoveAt(inflight, i)
    /\ lastEvent' = IF inflight[i].msgId = 0 THEN NoEvent
                    ELSE [kind |-> "sendFailureHandled", before |-> <<>>,
                          threadId |-> inflight[i].threadId,
                          msgId |-> inflight[i].msgId]
    /\ UNCHANGED <<dbThreads, dbParticipants, nextThreadId, nextMsgId, threads, selectedThreadId>>

\* handleCreateThread with participantIds [] and POST /api/threads, then
\* fetchThreads up to its await
CreateThread ==
    /\ activeUser # NullUser
    /\ Len(inflight) < MaxInFlight
    /\ nextThreadId <= MaxThreads
    /\ nextMsgId <= MaxMessages
    /\ dbThreads' = Append(dbThreads, [id |-> nextThreadId,
                                       messages |-> <<[id |-> nextMsgId]>>])
    /\ dbParticipants' = dbParticipants \cup {<<nextThreadId, activeUser.id>>}
    /\ nextThreadId' = nextThreadId + 1
    /\ nextMsgId' = nextMsgId + 1
    /\ error' = ""
    /\ inflight' = Append(inflight, FetchRequest(0, 0))
    /\ lastEvent' = NoEvent
    /\ UNCHANGED <<threads, selectedThreadId>>

\* handleSendMessage up to its await, on the thread ChatView shows
SendMessage ==
    /\ activeUser # NullUser
    /\ HasActiveThread
    /\ \A i \in DOMAIN threads : Len(threads[i].messages) < MaxListed
    /\ Len(inflight) < MaxInFlight
    /\ threads' = AppendMessage(threads, selectedThreadId, [id |-> DateNow])
    /\ inflight' = Append(inflight, Request("send", selectedThreadId, DateNow, <<>>))
    /\ lastEvent' = NoEvent
    /\ UNCHANGED <<dbThreads, dbParticipants, nextThreadId, nextMsgId, selectedThreadId, error>>

\* POST /api/threads/:threadId/messages answers 201, then fetchThreads up to
\* its await
SendMessageOk(i) ==
    /\ inflight[i].kind = "send"
    /\ nextMsgId <= MaxMessages
    /\ dbThreads' = AppendMessage(dbThreads, inflight[i].threadId,
                                  [id |-> nextMsgId])
    /\ nextMsgId' = nextMsgId + 1
    /\ error' = ""
    /\ inflight' = [inflight EXCEPT ![i] = FetchRequest(0, 0)]
    /\ lastEvent' = NoEvent
    /\ UNCHANGED <<dbParticipants, nextThreadId, threads, selectedThreadId>>

\* the catch of handleSendMessage: setError(...), then fetchThreads up to its
\* await, whose setError(null) is the last write to error
SendMessageFail(i) ==
    /\ inflight[i].kind = "send"
    /\ error' = ""
    /\ inflight' = [inflight EXCEPT
                       ![i] = FetchRequest(inflight[i].threadId, inflight[i].msgId)]
    /\ lastEvent' = NoEvent
    /\ UNCHANGED <<dbThreads, dbParticipants, nextThreadId, nextMsgId, threads, selectedThreadId>>

\* handleDeleteMessage up to its await, on a message of the thread shown
DeleteMessage(messageId) ==
    /\ activeUser # NullUser
    /\ HasActiveThread
    /\ Len(inflight) < MaxInFlight
    /\ \E i \in DOMAIN threads :
          /\ threads[i].id = selectedThreadId
          /\ \E j \in DOMAIN threads[i].messages :
                threads[i].messages[j].id = messageId
    /\ threads' = FilterMessage(threads, selectedThreadId, messageId)
    /\ inflight' = Append(inflight, Request("deleteMessage", selectedThreadId,
                                            messageId, threads))
    /\ lastEvent' = NoEvent
    /\ UNCHANGED <<dbThreads, dbParticipants, nextThreadId, nextMsgId, selectedThreadId, error>>

\* the catch of handleDeleteMessage without its setThreads(originalThreads)
DeleteMessageFailNoRevert(i) ==
    /\ inflight[i].kind = "deleteMessage"
    /\ error' = DeleteMessageError
    /\ threads' = threads
    /\ inflight' = RemoveAt(inflight, i)
    /\ lastEvent' = [kind |-> "deleteFailed", before |-> inflight[i].before,
                     threadId |-> inflight[i].threadId,
                     msgId |-> inflight[i].msgId]
    /\ UNCHANGED <<dbThreads, dbParticipants, nextThreadId, nextMsgId, selectedThreadId>>

\* the catch of handleDeleteMessage: the server has no DELETE /api/messages/:id,
\* the response is a 404 or none
DeleteMessageFail(i) ==
    /\ inflight[i].kind = "deleteMessage"
    /\ error' = DeleteMessageError
    /\ threads' = inflight[i].original
    /\ inflight' = RemoveAt(inflight, i)
    /\ lastEvent' = [kind |-> "deleteFailed", before |-> inflight[i].before,
                     threadId |-> inflight[i].threadId,
                     msgId |-> inflight[i].msgId]
    /\ UNCHANGED <<dbThreads, dbParticipants, nextThreadId, nextMsgId, selectedThreadId>>

\* handleDeleteThread up to its await
DeleteThread(threadId) ==
    LET newThreads == SelectSeq(threads, LAMBDA t : t.id # threadId)
        request == Request("deleteThread", threadId, 0, threads)
    IN
    /\ \E i \in DOMAIN threads : threads[i].id = threadId
    /\ Len(inflight) < MaxInFlight
    /\ threads' = newThreads
    /\ selectedThreadId' =
          IF selectedThreadId = threadId
          THEN (IF newThreads = <<>> THEN NoSelection ELSE newThreads[1].id)
          ELSE selectedThreadId
    \* the effect on [fetchThreads] runs when selectedThreadId has changed
    /\ IF selectedThreadId' # selectedThreadId
       THEN /\ inflight' = inflight \o
                  <<request, [FetchRequest(0, 0) EXCEPT
                                 !.selected = selectedThreadId']>>
            /\ error' = ""
       ELSE /\ inflight' = Append(inflight, request)
            /\ UNCHANGED error
    /\ lastEvent' = NoEvent
    /\ UNCHANGED <<dbThreads, dbParticipants, nextThreadId, nextMsgId>>

\* the catch of handleDeleteThread: the server has no DELETE /api/threads/:id
DeleteThreadFail(i) ==
    /\ inflight[i].kind = "deleteThread"
    /\ error' = DeleteThreadError
    /\ threads' = inflight[i].original
    /\ inflight' = RemoveAt(inflight, i)
    /\ lastEvent' = [kind |-> "deleteFailed", before |-> inflight[i].before,
                     threadId |-> inflight[i].threadId, msgId |-> 0]
    /\ UNCHANGED <<dbThreads, dbParticipants, nextThreadId, nextMsgId, selectedThreadId>>

otherThanMsg == <<authVars, payVars, acctVars, jobVars, sortVars, server, now, res>>

MsgNext ==
    \/ MsgLogin("admin@tabdeel.com")
          /\ UNCHANGED <<payVars, acctVars, jobVars, sortVars, server, now, res>>
    \/ Tick
    \/ CreateThread /\ UNCHANGED otherThanMsg
    \/ \E id \in 1..MaxThreads : SelectThread(id) /\ UNCHANGED otherThanMsg
    \/ \E i \in DOMAIN inflight : FetchThreadsOk(i) /\ UNCHANGED otherThanMsg
    \/ \E i \in DOMAIN inflight : FetchThreadsFail(i) /\ UNCHANGED otherThanMsg
    \/ SendMessage /\ UNCHANGED otherThanMsg
    \/ \E i \in DOMAIN inflight : SendMessageOk(i) /\ UNCHANGED otherThanMsg
    \/ \E i \in DOMAIN inflight : SendMessageFail(i) /\ UNCHANGED otherThanMsg
    \/ \E id \in MessageIds : DeleteMessage(id) /\ UNCHANGED otherThanMsg
    \/ \E i \in DOMAIN inflight : DeleteMessageFail(i) /\ UNCHANGED otherThanMsg
    \/ \E id \in 1..MaxThreads : DeleteThread(id) /\ UNCHANGED otherThanMsg
    \/ \E i \in DOMAIN inflight : DeleteThreadFail(i) /\ UNCHANGED otherThanMsg

\* MessagesPage while the user creates, reads and deletes, and sends nothing
DelNext ==
    \/ MsgLogin("admin@tabdeel.com")
          /\ UNCHANGED <<payVars, acctVars, jobVars, sortVars, server, now, res>>
    \/ CreateThread /\ UNCHANGED otherThanMsg
    \/ \E i \in DOMAIN inflight : FetchThreadsOk(i) /\ UNCHANGED otherThanMsg
    \/ \E i \in DOMAIN inflight : FetchThreadsFail(i) /\ UNCHANGED otherThanMsg
    \/ \E id \in MessageIds : DeleteMessage(id) /\ UNCHANGED otherThanMsg
    \/ \E i \in DOMAIN inflight : DeleteMessageFail(i) /\ UNCHANGED otherThanMsg
    \/ \E id \in 1..MaxThreads : DeleteThread(id) /\ UNCHANGED otherThanMsg
    \/ \E i \in DOMAIN inflight : DeleteThreadFail(i) /\ UNCHANGED otherThanMsg

-----------------------------------------------------------------------------
(* The thread routes of src/server.js as any client can call them, over the *)
(* users of the seed.  A message keeps its id, its author and its text; the *)
(* messages of a thread are kept in the order of their created_at.  res is  *)
(* the status code of the response.                                         *)

\* creatorId, currentUserId and userId of the requests (0: missing, 4: the
\* id of no user)
ThreadUserInputs == {0, 1, 2, 3, 4}

\* participantIds of the requests
ParticipantIdInputs == {<<>>, <<3>>, <<2, 1, 2>>, <<4>>}

\* text and initialMessage of the requests
TextInputs == {"", "hi"}

\* [...new Set(ids)]: the first occurrence of every element, in order
Unique(ids) ==
    LET first[k \in 0..Len(ids)] ==
            IF k = 0 THEN <<>>
            ELSE IF \E j \in 1..(k - 1) : ids[j] = ids[k] THEN first[k - 1]
            ELSE Append(first[k - 1], ids[k])
    IN first[Len(ids)]

\* users(id) has a row with this id
UserExists(userId) == \E i \in DOMAIN dbUsers : dbUsers[i].id = userId

\* threads(id) has a row with this id
ThreadExists(threadId) == \E i \in DOMAIN dbThreads : dbThreads[i].id = threadId

\* INSERT INTO thread_participants for every id of the list, in a transaction
\* on a thread without participants, succeeds: the thread and every user exist
\* (REFERENCES) and no id comes twice (PRIMARY KEY)
InsertsSucceed(threadId, ids) ==
    /\ ThreadExists(threadId)
    /\ \A i \in DOMAIN ids : UserExists(ids[i])
    /\ \A i, j \in DOMAIN ids : ids[i] = ids[j] => i = j

\* SELECT user_id FROM thread_participants WHERE thread_id = $1
ParticipantsOf(threadId) == {p[2] : p \in {q \in dbParticipants : q[1] = threadId}}

\* lastMessage?.text || 'No messages yet.'
LastMessageText(messages) ==
    IF Len(messages) = 0 THEN "No messages yet."
    ELSE IF messages[Len(messages)].text = "" THEN "No messages yet."
    ELSE messages[Len(messages)].text

\* GET /api/threads?userId=: the body of the 200 response
GetThreadsOf(userId) ==
    LET rows == SelectSeq(dbThreads, LAMBDA t : <<t.id, userId>> \in dbParticipants)
    IN [i \in DOMAIN rows |->
           [id |-> rows[i].id,
            participants |-> ParticipantsOf(rows[i].id),
            messages |-> rows[i].messages,
            lastMessage |-> LastMessageText(rows[i].messages)]]

\* POST /api/threads: the status code
PostThreadStatus(creatorId, participantIds) ==
    IF /\ creatorId # 0
       /\ UserExists(creatorId)
       /\ \A i \in DOMAIN participantIds : UserExists(participantIds[i])
    THEN 201
    ELSE 500

\* POST /api/threads
PostThread(creatorId, participantIds, initialMessage) ==
    /\ nextThreadId <= MaxThreads
    /\ nextMsgId <= MaxMessages
    /\ IF PostThreadStatus(creatorId, participantIds) = 201
       THEN LET allParticipantIds == Unique(<<creatorId>> \o participantIds)
            IN /\ dbThreads' = Append(dbThreads,
                      [id |-> nextThreadId,
                       messages |-> <<[id |-> nextMsgId, userId |-> creatorId,
                                       text |-> initialMessage]>>])
               /\ dbParticipants' = dbParticipants \cup
                      {<<nextThreadId, allParticipantIds[i]>> :
                          i \in DOMAIN allParticipantIds}
               /\ nextMsgId' = nextMsgId + 1
       ELSE UNCHANGED <<dbThreads, dbParticipants, nextMsgId>>
    \* threads.id SERIAL: the rolled back INSERT has taken its value
    /\ nextThreadId' = nextThreadId + 1
    /\ res' = PostThreadStatus(creatorId, participantIds)

\* POST /api/threads/:threadId/messages: the status code
PostMessageStatus(threadId, userId) ==
    IF ThreadExists(threadId) /\ (userId = 0 \/ UserExists(userId))
    THEN 201
    ELSE 500

\* POST /api/threads/:threadId/messages
PostMessage(threadId, userId, text) ==
    /\ nextMsgId <= MaxMessages
    /\ dbThreads' = IF PostMessageStatus(threadId, userId) = 201
                    THEN AppendMessage(dbThreads, threadId,
                             [id |-> nextMsgId, userId |-> userId, text |-> text])
                    ELSE dbThreads
    /\ nextMsgId' = nextMsgId + 1
    /\ res' = PostMessageStatus(threadId, userId)
    /\ UNCHANGED <<dbParticipants, nextThreadId>>

\* The participant ids of the PUT without the current user
FinalParticipantIdsNoCurrent(participantIds, currentUserId) ==
    Unique(participantIds)

\* const finalParticipantIds = [...new Set([currentUserId, ...participantIds])]
FinalParticipantIds(participantIds, currentUserId) ==
    Unique(<<currentUserId>> \o participantIds)

\* PUT /api/threads/:threadId/participants: the status code
PutParticipantsStatus(threadId, participantIds, currentUserId) ==
    IF currentUserId = 0 THEN 400
    ELSE IF InsertsSucceed(threadId,
                           FinalParticipantIds(participantIds, currentUserId))
    THEN 200
    ELSE 500

\* PUT /api/threads/:threadId/participants
PutParticipants(threadId, participantIds, currentUserId) ==
    /\ dbParticipants' =
          IF PutParticipantsStatus(threadId, participantIds, currentUserId) = 200
          THEN LET final == FinalParticipantIds(participantIds, currentUserId)
               IN {p \in dbParticipants : p[1] # threadId}
                     \cup {<<threadId, final[i]>> : i \in DOMAIN final}
          ELSE dbParticipants
    /\ res' = PutParticipantsStatus(threadId, participantIds, currentUserId)
    /\ UNCHANGED <<dbThreads, nextThreadId, nextMsgId>>

\* Everything but the tables of the thread routes
otherThanThreads == <<authVars, payVars, acctVars, jobVars, sortVars, server, now, threads,
                      selectedThreadId, error, inflight, lastEvent>>

ThreadsNext ==
    \/ \E creatorId \in ThreadUserInputs, participantIds \in ParticipantIdInputs,
          initialMessage \in TextInputs :
          PostThread(creatorId, participantIds, initialMessage)
             /\ UNCHANGED otherThanThreads
    \/ \E threadId \in 1..(MaxThreads + 1), userId \in ThreadUserInputs,
          text \in TextInputs :
          PostMessage(threadId, userId, text) /\ UNCHANGED otherThanThreads
    \/ \E threadId \in 1..(MaxThreads + 1), participantIds \in ParticipantIdInputs,
          currentUserId \in ThreadUserInputs :
          PutParticipants(threadId, participantIds, currentUserId)
             /\ UNCHANGED otherThanThreads

\* The routes that write thread_participants
ParticipantsNext ==
    \/ \E creatorId \in ThreadUserInputs, participantIds \in ParticipantIdInputs,
          initialMessage \in TextInputs :
          PostThread(creatorId, participantIds, initialMessage)
             /\ UNCHANGED otherThanThreads
    \/ \E threadId \in 1..(MaxThreads + 1), participantIds \in ParticipantIdInputs,
          currentUserId \in ThreadUserInputs :
          PutParticipants(threadId, participantIds, currentUserId)
             /\ UNCHANGED otherThanThreads

-----------------------------------------------------------------------------
(* Job comments: /api/jobs/:jobId/comments (src/server.js) and              *)
(* JobDetailsModal. A comment keeps its id, its author's name and its text. *)

\* GET /api/jobs/:jobId/comments: the same two comments for every job
FixedComments ==
    << [id |-> 1, user |-> "Suju",
        text |-> "Please check the main valve first, could be a pressure issue."],
       [id |-> 2, user |-> "NOUMAN",
        text |-> "Will do. I am on my way to the site now."] >>

\* What the user typed into the comment input
CommentInputs == {" ", "ok", "late"}

\* String.prototype.trim on the inputs
Trim(text) == IF text = " " THEN "" ELSE text

\* A request of the modal in flight; comment: the optimistic comment of the
\* post, or the one whose successful post started the fetch
JobRequest(kind, comment) == [kind |-> kind, comment |-> comment]

\* The effect on [isOpen, fetchComments] when the modal opens: fetchComments
\* up to its await
OpenModal ==
    /\ Len(jobInflight) < MaxInFlight
    /\ jobInflight' = Append(jobInflight, JobRequest("fetch", NoComment))
    /\ jobEvent' = NoJobEvent
    /\ UNCHANGED comments

\* fetchComments after its await, response ok
FetchCommentsOk(i) ==
    /\ jobInflight[i].kind = "fetch"
    /\ comments' = FixedComments
    /\ jobInflight' = RemoveAt(jobInflight, i)
    /\ jobEvent' = IF jobInflight[i].comment = NoComment THEN NoJobEvent
                   ELSE [kind |-> "fetchedAfterPost", before |-> <<>>,
                         comment |-> jobInflight[i].comment]

\* fetchComments after its await, no response or one that is not ok
FetchCommentsFail(i) ==
    /\ jobInflight[i].kind = "fetch"
    /\ jobInflight' = RemoveAt(jobInflight, i)
    /\ jobEvent' = NoJobEvent
    /\ UNCHANGED comments

\* handlePostComment up to its await
PostComment(newComment) ==
    LET optimisticComment == [id |-> DateNow, user |-> activeUser.name,
                              text |-> Trim(newComment)]
    IN /\ Trim(newComment) # ""
       /\ activeUser # NullUser
       /\ Len(jobInflight) < MaxInFlight
       /\ Len(comments) < Len(FixedComments) + MaxListed
       /\ comments' = Append(comments, optimisticComment)
       /\ jobInflight' = Append(jobInflight, JobRequest("post", optimisticComment))
       /\ jobEvent' = NoJobEvent

\* POST /api/jobs/:jobId/comments answers 201 and stores nothing; then
\* fetchComments up to its await
PostCommentOk(i) ==
    /\ jobInflight[i].kind = "post"
    /\ jobInflight' = [jobInflight EXCEPT
                          ![i] = JobRequest("fetch", jobInflight[i].comment)]
    /\ jobEvent' = NoJobEvent
    /\ UNCHANGED comments

\* the catch of handlePostComment
PostCommentFail(i) ==
    /\ jobInflight[i].kind = "post"
    /\ comments' = SelectSeq(comments,
                             LAMBDA c : c.id # jobInflight[i].comment.id)
    /\ jobInflight' = RemoveAt(jobInflight, i)
    /\ jobEvent' = [kind |-> "postFailed", before |-> comments,
                    comment |-> jobInflight[i].comment]

otherThanJob == <<authVars, payVars, acctVars, msgVars, sortVars, server, now,
                  res>>

JobNext ==
    \/ \E email \in ApproverEmails :
          Login(email, "password") /\ Persist /\ UNCHANGED otherThanAuth
    \/ Tick
    \/ OpenModal /\ UNCHANGED otherThanJob
    \/ \E i \in DOMAIN jobInflight : FetchCommentsOk(i) /\ UNCHANGED otherThanJob
    \/ \E i \in DOMAIN jobInflight : FetchCommentsFail(i) /\ UNCHANGED otherThanJob
    \/ \E text \in CommentInputs : PostComment(text) /\ UNCHANGED otherThanJob
    \/ \E i \in DOMAIN jobInflight : PostCommentOk(i) /\ UNCHANGED otherThanJob
    \/ \E i \in DOMAIN jobInflight : PostCommentFail(i) /\ UNCHANGED otherThanJob

-----------------------------------------------------------------------------
(* The sortable tables: ServiceJobsPage (src/components/jobs) with its two  *)
(* filters, and PaymentInstructionsTab (src/components/notifications).      *)
(* Both keep a sortConfig { key, direction } or null and change it with     *)
(* requestSort, called by a click on a column header.                       *)

\* sortConfig === null
NoSort == [key |-> "", direction |-> ""]

\* type SortableKeys of ServiceJobsPage
JobSortableKeys == {"project", "priority", "status"}

\* type SortableKeys of PaymentInstructionsTab
SortableKeys == {"dueDate", "amount"}

\* The options of the status filter and of the priority filter
StatusFilters == {"all", "Assigned", "In Progress", "Completed", "Resolved"}
PriorityFilters == {"all", "Low", "Medium", "High"}

DirectionOfAnyKey(config, key) ==
    IF config # NoSort /\ config.direction = "ascending"
    THEN "descending"
    ELSE "ascending"

\* The direction requestSort(key) computes when the table is sorted by config
Direction(config, key) ==
    IF config # NoSort /\ config.key = key /\ config.direction = "ascending"
    THEN "descending"
    ELSE "ascending"

\* ServiceJobsPage.requestSort
JobsRequestSort(key) ==
    /\ jobSortConfig' = [key |-> key, direction |-> Direction(jobSortConfig, key)]
    /\ UNCHANGED <<statusFilter, priorityFilter, sortConfig>>

\* PaymentInstructionsTab.requestSort
RequestSort(key) ==
    /\ sortConfig' = [key |-> key, direction |-> Direction(sortConfig, key)]
    /\ UNCHANGED <<statusFilter, priorityFilter, jobSortConfig>>

\* onChange of the status filter of ServiceJobsPage
SetStatusFilter(value) ==
    /\ value # statusFilter
    /\ statusFilter' = value
    /\ UNCHANGED <<priorityFilter, jobSortConfig, sortConfig>>

\* onChange of the priority filter of ServiceJobsPage
SetPriorityFilter(value) ==
    /\ value # priorityFilter
    /\ priorityFilter' = value
    /\ UNCHANGED <<statusFilter, jobSortConfig, sortConfig>>

otherThanSort == <<authVars, payVars, acctVars, msgVars, jobVars, server, now, res>>

SortNext ==
    \/ \E key \in JobSortableKeys : JobsRequestSort(key) /\ UNCHANGED otherThanSort
    \/ \E key \in SortableKeys : RequestSort(key) /\ UNCHANGED otherThanSort
    \/ \E value \in StatusFilters : SetStatusFilter(value) /\ UNCHANGED otherThanSort
    \/ \E value \in PriorityFilters :
          SetPriorityFilter(value) /\ UNCHANGED otherThanSort

-----------------------------------------------------------------------------
(* Startup: startServer, initializeDatabase and loadUsersIntoMemory of      *)
(* src/server.js, followed by the roles and users routes once the server    *)
(* listens.                                                                 *)

\* initializeDatabase up to COMMIT: the tables exist and are seeded
InitializeDatabaseOk ==
    /\ server = "initializing"
    /\ dbRoles' = DefaultRoles
    /\ dbUsers' = DefaultUsers
    /\ nextUserId' = Len(DefaultUsers) + 1
    /\ server' = "loading"
    /\ UNCHANGED cacheUsers

\* initializeDatabase when a query throws: ROLLBACK and process.exit(1)
InitializeDatabaseFail ==
    /\ server = "initializing"
    /\ server' = "exited"
    /\ UNCHANGED <<dbRoles, dbUsers, nextUserId, cacheUsers>>

\* loadUsersIntoMemory when its query is answered, then app.listen
LoadUsersIntoMemoryOk ==
    /\ server = "loading"
    /\ cacheUsers' = GetUsers
    /\ server' = "listening"
    /\ UNCHANGED <<dbRoles, dbUsers, nextUserId>>

\* loadUsersIntoMemory when its query throws: the catch logs the error and
\* the function returns, then app.listen
LoadUsersIntoMemoryFail ==
    /\ server = "loading"
    /\ server' = "listening"
    /\ UNCHANGED <<dbRoles, dbUsers, nextUserId, cacheUsers>>

\* Everything but the tables of roles and users, the cache and the server
otherThanStart == <<activeUser, roles, rawAllUsers, initialData, storedUser,
                    payVars, acctVars, msgVars, jobVars, sortVars, now, res>>

StartNext ==
    \/ InitializeDatabaseOk /\ UNCHANGED otherThanStart
    \/ InitializeDatabaseFail /\ UNCHANGED otherThanStart
    \/ LoadUsersIntoMemoryOk /\ UNCHANGED otherThanStart
    \/ LoadUsersIntoMemoryFail /\ UNCHANGED otherThanStart
    \/ server = "listening" /\ UsersNext

-----------------------------------------------------------------------------
(* Initial state: the database as initializeDatabase seeds it, a browser   *)
(* that has just loaded the page with an empty localStorage                *)

\* The tables without the roles and the users, and the browser
InitRest ==
    /\ storedUser = NoItem
    /\ instructions = <<>>
    /\ nextInstId = 1
    /\ accountHeads = <<>>
    /\ nextAccId = 1
    /\ deposits = <<>>
    /\ nextDepId = 1
    /\ res = 0
    /\ activeUser = NullUser
    /\ roles = <<>>
    /\ rawAllUsers = <<>>
    /\ initialData = "pending"
    /\ accounts = <<>>
    /\ selectedAccount = NoAccount
    /\ decidedBy = [i \in 1..(MaxInstructions + 1) |-> NullUser]
    /\ approvedIds = {}
    /\ createdDeposits = {}
    /\ dbThreads = <<>>
    /\ dbParticipants = {}
    /\ nextThreadId = 1
    /\ nextMsgId = 1
    /\ threads = <<>>
    /\ selectedThreadId = NoSelection
    /\ error = ""
    /\ inflight = <<>>
    /\ comments = <<>>
    /\ jobInflight = <<>>
    /\ now = 0
    /\ statusFilter = "all"
    /\ priorityFilter = "all"
    /\ jobSortConfig = NoSort
    /\ sortConfig = [key |-> "dueDate", direction |-> "descending"]
    /\ lastEvent = NoEvent
    /\ jobEvent = NoJobEvent

\* startServer has run without a failure and the server listens
Init ==
    /\ server = "listening"
    /\ dbRoles = DefaultRoles
    /\ dbUsers = DefaultUsers
    /\ nextUserId = Len(DefaultUsers) + 1
    /\ cacheUsers = [i \in DOMAIN DefaultUsers |-> PublicUser(DefaultUsers[i])]
    /\ InitRest

\* startServer is called on a database without tables
StartInit ==
    /\ server = "initializing"
    /\ dbRoles = <<>>
    /\ dbUsers = <<>>
    /\ nextUserId = 1
    /\ cacheUsers = <<>>
    /\ InitRest

SpecPay == Init /\ [][PayNext]_vars

SpecAuth == Init /\ [][AuthNext]_vars

SpecUsers == Init /\ [][UsersNext]_vars

SpecAcct == Init /\ [][AcctNext]_vars

SpecMsg == Init /\ [][MsgNext]_vars

SpecDel == Init /\ [][DelNext]_vars

SpecThreads == Init /\ [][ThreadsNext]_vars

SpecParticipants == Init /\ [][ParticipantsNext]_vars

SpecJob == Init /\ [][JobNext]_vars

SpecStart == StartInit /\ [][StartNext]_vars

SpecSort == Init /\ [][SortNext]_vars

-----------------------------------------------------------------------------
(* Claims on payment instructions (SpecPay) *)

StatusEnum == {"Pending", "Approved", "Rejected"}

\* C1: for any sequence of POST and PUT requests on
\* /api/finance/payment-instructions, the status of every stored payment
\* instruction is one of Pending, Approved, Rejected.
C1_StatusInEnum ==
    \A i \in DOMAIN instructions : instructions[i].status \in StatusEnum

\* C2: an instruction is created Pending, and a step changes a status only
\* from Pending to Approved or from Pending to Rejected; an Approved or
\* Rejected instruction keeps its status.
C2_OnlyPendingDecided ==
    [][/\ \A i \in DOMAIN instructions' :
             i \notin DOMAIN instructions => instructions'[i].status = "Pending"
       /\ \A i \in DOMAIN instructions :
             instructions'[i].status # instructions[i].status
                => /\ instructions[i].status = "Pending"
                   /\ instructions'[i].status \in {"Approved", "Rejected"}]_vars

\* C3: an instruction leaves Pending for Approved or Rejected only through a
\* user whose role grants finance:approve (or system:admin) and whose
\* financial limit is at least the instruction's amount.
C3_DecidedByApprover ==
    \A i \in DOMAIN instructions :
        decidedBy[instructions[i].id] # NullUser
            => canApprove(dbRoles, decidedBy[instructions[i].id], instructions[i])

\* C25: the history of an instruction is append-only.  A new instruction has
\* the single entry Pending of its submitter; a step that changes an
\* instruction adds exactly one entry after the entries it had, and leaves
\* the status alone when it leaves the history alone; the status of the last
\* entry is the status of the instruction.
C25_HistoryAppendOnly ==
    [][/\ \A i \in DOMAIN instructions' :
             i \notin DOMAIN instructions
                => instructions'[i].history =
                      << [status |-> "Pending",
                          user |-> instructions'[i].submittedBy] >>
       /\ \A i \in DOMAIN instructions :
             LET old == instructions[i].history
                 new == instructions'[i].history
             IN IF new = old
                THEN instructions'[i].status = instructions[i].status
                ELSE /\ Len(new) = Len(old) + 1
                     /\ SubSeq(new, 1, Len(old)) = old
       /\ \A i \in DOMAIN instructions' :
             LET new == instructions'[i].history
             IN /\ new # <<>>
                /\ new[Len(new)].status = instructions'[i].status]_vars

-----------------------------------------------------------------------------
(* Claims on the AuthProvider (SpecAuth) *)

\* C5: hasPermission(p) is true exactly when a user is logged in and a loaded
\* role whose id equals the user's roleId lists p or system:admin; it is false
\* when nobody is logged in and when the roleId matches no loaded role.
C5_HasPermissionExact ==
    \A p \in CheckedPermissions :
        hasPermission(p) <=>
            /\ activeUser # NullUser
            /\ \E r \in Range(roles) :
                  /\ r.id = activeUser.roleId
                  /\ (p \in Range(r.permissions)
                        \/ "system:admin" \in Range(r.permissions))

\* C5 witness: a logged-in user whose edited role lists system:admin but not
\* finance:approve is granted finance:approve.
C5_Witness ==
    /\ activeUser # NullUser
    /\ activeUser.roleId \notin ProtectedRoleIds \ {"Technician"}
    /\ \E r \in Range(roles) :
          /\ r.id = activeUser.roleId
          /\ "finance:approve" \notin Range(r.permissions)
          /\ "system:admin" \in Range(r.permissions)
    /\ hasPermission("finance:approve")

-----------------------------------------------------------------------------
(* Claims on account heads and deposits (SpecAcct) *)

\* C4: an account head has status Active only after the approve action was
\* performed on it; create and edit requests alone never make one Active.
C4_ActiveOnlyApproved ==
    \A i \in DOMAIN accountHeads :
        accountHeads[i].status = "Active" => accountHeads[i].id \in approvedIds

\* C10: every deposit a POST /api/finance/deposits created is among the rows
\* GET /api/finance/deposits returns, in every later state.
C10_CreatedDepositsListed ==
    \A id \in createdDeposits :
        \E i \in DOMAIN GetDeposits : GetDeposits[i].id = ToString(id)

-----------------------------------------------------------------------------
(* Claims on MessagesPage (SpecMsg) *)

\* The ids of the messages the page lists in thread threadId
ListedIds(threadId) ==
    UNION {{threads[i].messages[j].id : j \in DOMAIN threads[i].messages} :
           i \in {k \in DOMAIN threads : threads[k].id = threadId}}

\* C6: once the failure of a send has been handled (the fetchThreads its catch
\* block started has completed), the optimistic message of that send is no
\* longer in the thread.
C6_OptimisticMessageRemoved ==
    lastEvent.kind = "sendFailureHandled"
        => lastEvent.msgId \notin ListedIds(lastEvent.threadId)

\* C7: when a message-delete or thread-delete request has failed, the thread
\* list is the one the page had immediately before the optimistic removal and
\* the error message of the delete is shown.
C7_DeleteFailureRestores ==
    lastEvent.kind = "deleteFailed"
        => /\ threads = lastEvent.before
           /\ error \in {DeleteMessageError, DeleteThreadError}

\* C7 witness: a message delete failed after another request had changed the
\* list in between, and the deleted message is listed again.
C7_Witness ==
    /\ lastEvent.kind = "deleteFailed"
    /\ lastEvent.msgId # 0
    /\ lastEvent.msgId \in ListedIds(lastEvent.threadId)
    /\ inflight # <<>>

\* The ids of the messages GET /api/threads returns in thread threadId
StoredIds(threadId) ==
    UNION {{GetThreads[i].messages[j].id : j \in DOMAIN GetThreads[i].messages} :
           i \in {k \in DOMAIN GetThreads : GetThreads[k].id = threadId}}

\* C24: once the handling of a confirmed message deletion has completed, the
\* message is neither in the thread the page shows nor in the thread that
\* GET /api/threads returns.
C24_DeletedMessageAbsent ==
    (lastEvent.kind = "deleteFailed" /\ lastEvent.msgId # 0)
        => /\ lastEvent.msgId \notin ListedIds(lastEvent.threadId)
           /\ lastEvent.msgId \notin StoredIds(lastEvent.threadId)

-----------------------------------------------------------------------------
(* Claims on JobDetailsModal (SpecJob) *)

\* The list without the first occurrence of comment c (the list itself when
\* c is not in it)
WithoutComment(list, c) ==
    IF \E i \in DOMAIN list : list[i] = c
    THEN LET k == CHOOSE i \in DOMAIN list :
                     list[i] = c /\ \A j \in 1..(i - 1) : list[j] # c
         IN SubSeq(list, 1, k - 1) \o SubSeq(list, k + 1, Len(list))
    ELSE list

\* C8: when posting a comment has failed, the comment list is the list of the
\* state before with exactly the optimistic comment of that post removed;
\* every other comment is still there, in the same order.
C8_OnlyOptimisticRemoved ==
    jobEvent.kind = "postFailed"
        => comments = WithoutComment(jobEvent.before, jobEvent.comment)

\* C9: when the fetch that follows a successful post has been answered, the
\* comment list contains a comment with the text and the author of the
\* posted one.
C9_PostedCommentFetched ==
    jobEvent.kind = "fetchedAfterPost"
        => \E i \in DOMAIN comments :
              /\ comments[i].text = jobEvent.comment.text
              /\ comments[i].user = jobEvent.comment.user

-----------------------------------------------------------------------------
(* Claims on the users and roles routes (SpecUsers) *)

\* C11: in every reachable state of the backend, the role of each row of the
\* users table is the id of a row of the roles table.
C11_UserRoleExists ==
    \A i \in DOMAIN dbUsers :
        \E j \in DOMAIN dbRoles : dbRoles[j].id = dbUsers[i].roleId

\* C12: the in-memory cache db.users holds exactly the users of the users
\* table, each with the name and the role of its row.
C12_CacheMatchesTable ==
    {cacheUsers[i] : i \in DOMAIN cacheUsers}
        = {PublicUser(dbUsers[i]) : i \in DOMAIN dbUsers}

\* C17: the roles Administrator, Manager and Technician exist in every
\* reachable state, and a DELETE /api/roles/:id naming one of them is answered
\* 403 and leaves the roles and the users as they were.
C17_DefaultRolesProtected ==
    /\ [](\A id \in ProtectedRoleIds : \E i \in DOMAIN dbRoles : dbRoles[i].id = id)
    /\ [][\A id \in ProtectedRoleIds :
             DeleteRoleRow(id)
                => (res' = 403 /\ dbRoles' = dbRoles /\ dbUsers' = dbUsers)]_vars

\* C17 witness: the delete of a default role was answered 403 while a custom
\* role exists next to the three default roles.
C17_Witness ==
    /\ res = 403
    /\ \E i \in DOMAIN dbRoles : dbRoles[i].id \in CustomRoleIds
    /\ \A id \in ProtectedRoleIds : \E i \in DOMAIN dbRoles : dbRoles[i].id = id

C20_ChangePasswordTakesEffect ==
    [][\A userId \in EditedUserIds, currentPassword \in PasswordInputs,
          newPassword \in NewPasswordInputs :
          (res' \in {200, 400}
              /\ ChangePassword(userId, currentPassword, newPassword))
             => /\ res' = 400 => dbUsers' = dbUsers
                /\ (res' = 200 /\ currentPassword # newPassword) =>
                      \A i \in DOMAIN dbUsers :
                          dbUsers[i].id = userId =>
                             /\ LoginStatus(dbUsers[i].email, newPassword)' = 200
                             /\ LoginStatus(dbUsers[i].email, currentPassword)' # 200
      ]_vars

-----------------------------------------------------------------------------
(* Claims on the session of AuthProvider (SpecAuth) *)

\* C13: after the onLogout of the main layout no user is logged in (App shows
\* the login page exactly when the user of useAuth is null).
C13_OnLogoutEndsSession ==
    [][OnLogout => activeUser' = NullUser]_vars

-----------------------------------------------------------------------------
(* Claims on the thread routes (SpecThreads) *)

\* C15: for every user u, GET /api/threads?userId=u returns a thread exactly
\* when u is a participant of it, each with its messages in the order of
\* their creation and with lastMessage equal to the text of its last message.
C15_ThreadsOfParticipant ==
    \A u \in 1..MaxUsers :
        LET body == GetThreadsOf(u) IN
        /\ \A i \in DOMAIN dbThreads :
              (\E k \in DOMAIN body : body[k].id = dbThreads[i].id)
                 <=> u \in ParticipantsOf(dbThreads[i].id)
        /\ \A k \in DOMAIN body :
              LET messages == body[k].messages IN
              /\ \A i, j \in DOMAIN messages :
                    i < j => messages[i].id < messages[j].id
              /\ Len(messages) > 0
                    => body[k].lastMessage = messages[Len(messages)].text

-----------------------------------------------------------------------------
(* Claims on requests that name a missing row (SpecAcct) *)

\* C16: an update or a delete request that names an id of no stored row is
\* answered 404 and changes no row; here for the account heads.
C16_MissingIdAnswers404 ==
    [][\A id \in 1..MaxAccountHeads :
          (/\ ~ \E i \in DOMAIN accountHeads : accountHeads[i].id = id
           /\ \/ DeleteAccountHead(id)
              \/ \E status \in AccountStatusInputs : PutAccountHead(id, status))
             => (res' = 404 /\ accountHeads' = accountHeads)]_vars

\* C18: after every PUT /api/threads/:threadId/participants answered 200, the
\* requesting user is a participant of the thread and the participants of the
\* thread are exactly the requesting user and the users of participantIds.
C18_CurrentUserStaysParticipant ==
    [][\A threadId \in 1..(MaxThreads + 1), participantIds \in ParticipantIdInputs,
          currentUserId \in ThreadUserInputs :
          (res' = 200 /\ PutParticipants(threadId, participantIds, currentUserId))
             => /\ <<threadId, currentUserId>> \in dbParticipants'
                /\ {p[2] : p \in {q \in dbParticipants' : q[1] = threadId}}
                      = {currentUserId} \cup Range(participantIds)]_vars

\* C18 witness: a PUT was answered 200 and the thread user 1 created has the
\* participants 2 and 3, so that a user other than the creator replaced them.
C18_Witness ==
    /\ res = 200
    /\ \E i \in DOMAIN dbThreads :
          /\ dbThreads[i].messages[1].userId = 1
          /\ ParticipantsOf(dbThreads[i].id) = {2, 3}

-----------------------------------------------------------------------------
(* Claims on the selection of MessagesPage (SpecDel) *)

\* C21: after every fetchThreads that completed with an ok response, the
\* selected thread id is the id of a thread of the list, or it is null and
\* the list is empty.
C21_SelectionInFetchedList ==
    [][\A i \in DOMAIN inflight :
          FetchThreadsOk(i)
             => \/ selectedThreadId' = NoSelection /\ threads' = <<>>
                \/ \E j \in DOMAIN threads' : threads'[j].id = selectedThreadId'
      ]_vars

-----------------------------------------------------------------------------
(* Claims on the startup of the server (SpecStart) *)

\* C22: when the server starts to listen, the initialisation has committed
\* the seeded tables and the cache holds the users of the users table; a
\* server that has exited never listens.
C22_ListensAfterInitAndLoad ==
    [][/\ (server # "listening" /\ server' = "listening")
           => /\ dbRoles' = DefaultRoles
              /\ dbUsers' = DefaultUsers
              /\ cacheUsers' = [i \in DOMAIN dbUsers' |-> PublicUser(dbUsers'[i])]
       /\ server = "exited" => server' = "exited"]_vars

-----------------------------------------------------------------------------
(* Claims on the sortable tables (SpecSort) *)

\* C23: requestSort(key) sets the key to the requested one and the direction
\* to descending exactly when the table is sorted ascending by that key; the
\* direction is ascending in every other case, so a second request on the
\* column the table is sorted by reverses the direction and a request on
\* another column, or on an unsorted table, starts ascending.
C23_RequestSortToggles ==
    [][/\ \A key \in JobSortableKeys :
            JobsRequestSort(key) =>
              /\ jobSortConfig'.key = key
              /\ jobSortConfig'.direction \in {"ascending", "descending"}
              /\ jobSortConfig'.direction = "descending" <=>
                    jobSortConfig = [key |-> key, direction |-> "ascending"]
              /\ jobSortConfig.key = key =>
                    jobSortConfig'.direction # jobSortConfig.direction
              /\ jobSortConfig.key # key =>
                    jobSortConfig'.direction = "ascending"
       /\ \A key \in SortableKeys :
            RequestSort(key) =>
              /\ sortConfig'.key = key
              /\ sortConfig'.direction \in {"ascending", "descending"}
              /\ sortConfig'.direction = "descending" <=>
                    sortConfig = [key |-> key, direction |-> "ascending"]
              /\ sortConfig.key = key =>
                    sortConfig'.direction # sortConfig.direction
              /\ sortConfig.key # key =>
                    sortConfig'.direction = "ascending"]_vars

\* Both tables were toggled to descending on a column other than the one
\* they were sorted by at first
C23_Witness ==
    /\ jobSortConfig = [key |-> "priority", direction |-> "descending"]
    /\ sortConfig = [key |-> "amount", direction |-> "descending"]

=============================================================================
